---- MODULE Spec2Model ----
(***************************************************************************)
(* Model of run_task.py: the batch runner run_all_tasks, the report        *)
(* generator generate_summary_report and the single-job entry point        *)
(* run_single_task, driving an external agent (AgentB) whose three         *)
(* operations initialize_browser, execute_task and close_browser either    *)
(* return or raise.                                                        *)
(*                                                                         *)
(* Console printing is not modelled (print calls are taken to return).     *)
(* asyncio.sleep is modelled as a step that returns: no cancellation of    *)
(* the running coroutine is modelled.                                      *)
(***************************************************************************)
EXTENDS Integers, Sequences, FiniteSets, TLC

VARIABLES
    mode,           \* entry point invoked: "all" or "single"
    headless,       \* the headless argument
    task_index,     \* run_single_task's task_index argument
    pc,             \* position of the coroutine
    i,              \* enumerate(TASKS, 1) counter of the for loop
    results,        \* the results list of run_all_tasks
    manifest_path,  \* value returned by the last execute_task
    e,              \* exception bound by "except Exception as e"
    raised,         \* chain of the exception propagating out, head first,
                    \* followed by its __context__ chain
    dataset_summary,\* content of dataset_summary.json
    log             \* calls observed by the agent and the runner's records

vars == <<mode, headless, task_index, pc, i, results, manifest_path, e,
          raised, dataset_summary, log>>

----------------------------------------------------------------------------
(* Bounds of the model *)

\* task_index ranges over -MaxIndex .. MaxIndex
MaxIndex == 7
\* number of distinct manifest paths execute_task may return
MaxManifests == 2
\* number of distinct failure texts execute_task may raise with
MaxErrors == 2
\* longest outcome list handed to generate_summary_report on its own
MaxOutcomes == 2

----------------------------------------------------------------------------
(* The job catalog *)

TASKS ==
    << [app |-> "Linear",
        description |-> "Create a new project in Linear",
        url |-> "https://linear.app/test916/team/TES/active",
        expected_states |-> << "Projects list view",
                               "Create project button visible",
                               "Create project modal open",
                               "Project name input field",
                               "Project settings options",
                               "Success state with new project" >>],
       [app |-> "Linear",
        description |-> "Create a new issue in Linear",
        url |-> "https://linear.app/test916/team/TES/active",
        expected_states |-> << "Issues board view",
                               "New issue button visible",
                               "Issue creation modal",
                               "Title and description fields",
                               "Priority and assignee options",
                               "Issue created confirmation" >>],
       [app |-> "Linear",
        description |-> "Filter issues by status in Linear",
        url |-> "https://linear.app/test916/team/TES/active",
        expected_states |-> << "Issues view with filters",
                               "Filter menu button",
                               "Filter dropdown expanded",
                               "Status filter options",
                               "Applied filter view",
                               "Filtered results displayed" >>],
       [app |-> "Notion",
        description |-> "Create a new page in Notion",
        url |-> "https://www.notion.so/",
        expected_states |-> << "Notion workspace",
                               "New page button",
                               "Empty page editor",
                               "Title input",
                               "Content area",
                               "Page saved" >>],
       [app |-> "Notion",
        description |-> "Filter a database by property in Notion",
        url |-> "https://www.notion.so/",
        expected_states |-> << "Database view",
                               "Filter button visible",
                               "Filter options panel",
                               "Property selection",
                               "Filter applied",
                               "Filtered database results" >>] >>

\* seconds of asyncio.sleep between tasks
sleep_seconds == 3

----------------------------------------------------------------------------
(* The external agent: what its operations may return or raise *)

\* Path objects execute_task may return
ManifestPaths ==
    { [kind |-> "Path", parts |-> <<"captured_states", n, "manifest.json">>] :
        n \in 1..MaxManifests }

\* exceptions execute_task may raise
TaskExecutionErrors ==
    { [type |-> "TaskExecutionError", msg |-> n] : n \in 1..MaxErrors }

SessionInitError == [type |-> "SessionInitError", msg |-> 0]
CloseError == [type |-> "CloseError", msg |-> 0]
ReportPersistError == [type |-> "ReportPersistError", msg |-> 0]
IndexError == [type |-> "IndexError", msg |-> 0]

NoValue == [kind |-> "None"]
NoException == [type |-> "None", msg |-> 0]
NoFile == [kind |-> "absent"]

\* str(manifest_path): the path's parts joined
StrPath(p) == [kind |-> "str", parts |-> p.parts]

\* str(e): the exception's message
StrError(x) == [kind |-> "str", text |-> x.msg]

----------------------------------------------------------------------------
(* Initial state: one of the two coroutines has been called, the agent is  *)
(* constructed and results is empty.                                       *)

Init ==
    /\ mode \in {"all", "single"}
    /\ headless \in BOOLEAN
    /\ \/ mode = "all" /\ task_index = 0
       \/ mode = "single" /\ task_index \in (0 - MaxIndex)..MaxIndex
    /\ pc = IF mode = "all" THEN "initialize_browser" ELSE "check_index"
    /\ i = 0
    /\ results = << >>
    /\ manifest_path = NoValue
    /\ e = NoException
    /\ raised = << >>
    /\ dataset_summary = NoFile
    /\ log = << >>

----------------------------------------------------------------------------
(* run_all_tasks *)

\* variant: a failed initialize_browser is swallowed and the loop is entered
AllInitializeBrowser_Swallowed ==
    /\ mode = "all"
    /\ pc = "initialize_browser"
    /\ \E ok \in BOOLEAN :
         IF ok
         THEN log' = Append(log, <<"initialize_browser", 0>>)
         ELSE log' = log \o << <<"initialize_browser", 0>>,
                               <<"initialize_browser!raise", 0>> >>
    /\ i' = 1
    /\ pc' = "for"
    /\ UNCHANGED <<mode, headless, task_index, results, manifest_path, e,
                   raised, dataset_summary>>

\* await agent.initialize_browser(headless=headless), inside the outer try
AllInitializeBrowser ==
    /\ mode = "all"
    /\ pc = "initialize_browser"
    /\ \E ok \in BOOLEAN :
         IF ok
         THEN /\ log' = Append(log, <<"initialize_browser", 0>>)
              /\ i' = 1
              /\ pc' = "for"
              /\ raised' = raised
         ELSE /\ log' = log \o << <<"initialize_browser", 0>>,
                                  <<"initialize_browser!raise", 0>> >>
              /\ i' = i
              /\ pc' = "finally"
              /\ raised' = <<SessionInitError>>
    /\ UNCHANGED <<mode, headless, task_index, results, manifest_path, e,
                   dataset_summary>>

\* for i, task in enumerate(TASKS, 1): next iteration or exhaustion
AllFor ==
    /\ mode = "all"
    /\ pc = "for"
    /\ pc' = IF i <= Len(TASKS) THEN "execute_task" ELSE "finally"
    /\ UNCHANGED <<mode, headless, task_index, i, results, manifest_path, e,
                   raised, dataset_summary, log>>

\* the call agent.execute_task(...) is made and the coroutine awaits it
AllExecuteTaskCall ==
    /\ mode = "all"
    /\ pc = "execute_task"
    /\ log' = Append(log, <<"execute_task", i>>)
    /\ pc' = "awaiting"
    /\ UNCHANGED <<mode, headless, task_index, i, results, manifest_path, e,
                   raised, dataset_summary>>

\* execute_task returns a manifest path or raises
AllExecuteTaskEnd ==
    /\ mode = "all"
    /\ pc = "awaiting"
    /\ \/ \E p \in ManifestPaths :
            /\ manifest_path' = p
            /\ e' = e
            /\ log' = Append(log, <<"execute_task!return", i>>)
            /\ pc' = "append_success"
       \/ \E x \in TaskExecutionErrors :
            /\ e' = x
            /\ manifest_path' = manifest_path
            /\ log' = Append(log, <<"execute_task!raise", i>>)
            /\ pc' = "except"
    /\ UNCHANGED <<mode, headless, task_index, i, results, raised,
                   dataset_summary>>

\* variant: the success record is inserted at the front of results
AllAppendSuccess_Prepend ==
    /\ mode = "all"
    /\ pc = "append_success"
    /\ results' = << [task |-> TASKS[i].description,
                      app |-> TASKS[i].app,
                      status |-> "success",
                      manifest |-> StrPath(manifest_path)] >> \o results
    /\ log' = Append(log, <<"append", i>>)
    /\ pc' = "sleep"
    /\ UNCHANGED <<mode, headless, task_index, i, manifest_path, e, raised,
                   dataset_summary>>

\* results.append({... "status": "success", "manifest": str(manifest_path)})
AllAppendSuccess ==
    /\ mode = "all"
    /\ pc = "append_success"
    /\ results' = Append(results,
                         [task |-> TASKS[i].description,
                          app |-> TASKS[i].app,
                          status |-> "success",
                          manifest |-> StrPath(manifest_path)])
    /\ log' = Append(log, <<"append", i>>)
    /\ pc' = "sleep"
    /\ UNCHANGED <<mode, headless, task_index, i, manifest_path, e, raised,
                   dataset_summary>>

\* variant: the sleep raises an Exception, which the handler of the
\* enclosing try catches
AllSleep_Raises ==
    /\ mode = "all"
    /\ pc = "sleep"
    /\ log' = Append(log, <<"sleep", sleep_seconds>>)
    /\ \E x \in TaskExecutionErrors : e' = x
    /\ pc' = "except"
    /\ UNCHANGED <<mode, headless, task_index, i, results, manifest_path,
                   raised, dataset_summary>>

\* await asyncio.sleep(3), last statement of the inner try body
AllSleep ==
    /\ mode = "all"
    /\ pc = "sleep"
    /\ log' = Append(log, <<"sleep", sleep_seconds>>)
    /\ i' = i + 1
    /\ pc' = "for"
    /\ UNCHANGED <<mode, headless, task_index, results, manifest_path, e,
                   raised, dataset_summary>>

\* variant: the handler swallows the exception without recording it
AllExcept_Pass ==
    /\ mode = "all"
    /\ pc = "except"
    /\ e' = NoException
    /\ i' = i + 1
    /\ pc' = "for"
    /\ UNCHANGED <<mode, headless, task_index, results, manifest_path, raised,
                   dataset_summary, log>>

\* variant: the handler records the failure and attempts the same job again
AllExcept_Retry ==
    /\ mode = "all"
    /\ pc = "except"
    /\ results' = Append(results,
                         [task |-> TASKS[i].description,
                          app |-> TASKS[i].app,
                          status |-> "failed",
                          error |-> StrError(e)])
    /\ log' = Append(log, <<"append", i>>)
    /\ e' = NoException
    /\ pc' = "execute_task"
    /\ UNCHANGED <<mode, headless, task_index, i, manifest_path, raised,
                   dataset_summary>>

\* variant: the handler records the failure and re-raises it
AllExcept_Reraise ==
    /\ mode = "all"
    /\ pc = "except"
    /\ results' = Append(results,
                         [task |-> TASKS[i].description,
                          app |-> TASKS[i].app,
                          status |-> "failed",
                          error |-> StrError(e)])
    /\ log' = Append(log, <<"append", i>>)
    /\ raised' = <<e>>
    /\ pc' = "finally"
    /\ UNCHANGED <<mode, headless, task_index, i, manifest_path, e,
                   dataset_summary>>

\* variant: the failed record also carries the last manifest
AllExcept_WithManifest ==
    /\ mode = "all"
    /\ pc = "except"
    /\ results' = Append(results,
                         [task |-> TASKS[i].description,
                          app |-> TASKS[i].app,
                          status |-> "failed",
                          manifest |-> manifest_path,
                          error |-> StrError(e)])
    /\ log' = Append(log, <<"append", i>>)
    /\ e' = NoException
    /\ i' = i + 1
    /\ pc' = "for"
    /\ UNCHANGED <<mode, headless, task_index, manifest_path, raised,
                   dataset_summary>>

\* except Exception as e: results.append({... "status": "failed", ...})
AllExcept ==
    /\ mode = "all"
    /\ pc = "except"
    /\ results' = Append(results,
                         [task |-> TASKS[i].description,
                          app |-> TASKS[i].app,
                          status |-> "failed",
                          error |-> StrError(e)])
    /\ log' = Append(log, <<"append", i>>)
    /\ e' = NoException
    /\ i' = i + 1
    /\ pc' = "for"
    /\ UNCHANGED <<mode, headless, task_index, manifest_path, raised,
                   dataset_summary>>

\* variant: the report is generated whatever exception is propagating
AllFinally_ThenReport ==
    /\ mode = "all"
    /\ pc = "finally"
    /\ \E ok \in BOOLEAN :
         IF ok
         THEN /\ log' = Append(log, <<"close_browser", 0>>)
              /\ raised' = raised
              /\ pc' = "generate_summary_report"
         ELSE /\ log' = log \o << <<"close_browser", 0>>,
                                  <<"close_browser!raise", 0>> >>
              /\ raised' = <<CloseError>> \o raised
              /\ pc' = "done"
    /\ UNCHANGED <<mode, headless, task_index, i, results, manifest_path, e,
                   dataset_summary>>

\* variant: close_browser placed after the try block, not in a finally
AllFinally_AfterTry ==
    /\ mode = "all"
    /\ pc = "finally"
    /\ IF raised # << >>
       THEN /\ pc' = "done"
            /\ UNCHANGED <<raised, log>>
       ELSE \E ok \in BOOLEAN :
              IF ok
              THEN /\ log' = Append(log, <<"close_browser", 0>>)
                   /\ raised' = raised
                   /\ pc' = "generate_summary_report"
              ELSE /\ log' = log \o << <<"close_browser", 0>>,
                                       <<"close_browser!raise", 0>> >>
                   /\ raised' = <<CloseError>>
                   /\ pc' = "done"
    /\ UNCHANGED <<mode, headless, task_index, i, results, manifest_path, e,
                   dataset_summary>>

\* finally: await agent.close_browser()
AllFinally ==
    /\ mode = "all"
    /\ pc = "finally"
    /\ \E ok \in BOOLEAN :
         IF ok
         THEN /\ log' = Append(log, <<"close_browser", 0>>)
              /\ raised' = raised
              /\ pc' = IF raised = << >> THEN "generate_summary_report"
                                         ELSE "done"
         ELSE /\ log' = log \o << <<"close_browser", 0>>,
                                  <<"close_browser!raise", 0>> >>
              /\ raised' = <<CloseError>> \o raised
              /\ pc' = "done"
    /\ UNCHANGED <<mode, headless, task_index, i, results, manifest_path, e,
                   dataset_summary>>

----------------------------------------------------------------------------
(* generate_summary_report *)

\* variant: the failed count compares with a status no record carries
CountStatus_Misspelt(rs, st) ==
    Cardinality({ k \in 1..Len(rs) :
                    rs[k].status = (IF st = "failed" THEN "failure" ELSE st) })

RECURSIVE CountStatus(_, _)
\* sum(1 for r in results if r['status'] == st)
CountStatus(rs, st) ==
    IF rs = << >> THEN 0
    ELSE (IF Head(rs).status = st THEN 1 ELSE 0) + CountStatus(Tail(rs), st)

\* set(r['app'] for r in results)
AppSet(rs) == { rs[k].app : k \in 1..Len(rs) }

\* list(s) of a set s: its elements once each, in an order the set decides
ListsOf(s) ==
    { q \in [1..Cardinality(s) -> s] : { q[k] : k \in 1..Cardinality(s) } = s }

\* the static "dataset_structure" entry
dataset_structure ==
    [root |-> "captured_states/",
     format |-> "Each task has its own directory with manifest.json and screenshots",
     manifest_fields |-> << "task", "total_steps",
                            "states (array of state objects)",
                            "captured_at" >>,
     state_fields |-> << "step", "description", "timestamp", "url",
                         "screenshot", "viewport", "title", "metadata" >>]

\* variant: apps_covered lists the app of every outcome, duplicates included
Report_NoDedup(rs, apps) ==
    [total_tasks |-> Len(rs),
     successful_tasks |-> CountStatus(rs, "success"),
     failed_tasks |-> CountStatus(rs, "failed"),
     apps_covered |-> [k \in 1..Len(rs) |-> rs[k].app],
     tasks |-> rs,
     dataset_structure |-> dataset_structure]

\* the report dictionary, apps being list(set(...)) in its iteration order
Report(rs, apps) ==
    [total_tasks |-> Len(rs),
     successful_tasks |-> CountStatus(rs, "success"),
     failed_tasks |-> CountStatus(rs, "failed"),
     apps_covered |-> apps,
     tasks |-> rs,
     dataset_structure |-> dataset_structure]

\* the body of generate_summary_report(rs): the report is built, then
\* open("dataset_summary.json", 'w') and json.dump either succeed or raise
generate_summary_report(rs) ==
    \E apps \in ListsOf(AppSet(rs)) :
      \/ /\ dataset_summary' = [kind |-> "json",
                                content |-> Report(rs, apps)]
         /\ log' = Append(log, <<"generate_summary_report", Len(rs)>>)
         /\ raised' = raised
      \/ \* open() raises: the file is left as it was
         /\ dataset_summary' = dataset_summary
         /\ log' = log \o << <<"generate_summary_report", Len(rs)>>,
                              <<"generate_summary_report!raise", 0>> >>
         /\ raised' = <<ReportPersistError>>
      \/ \* json.dump raises after open() truncated the file
         /\ dataset_summary' = [kind |-> "truncated"]
         /\ log' = log \o << <<"generate_summary_report", Len(rs)>>,
                              <<"generate_summary_report!raise", 0>> >>
         /\ raised' = <<ReportPersistError>>

\* generate_summary_report(results) as called at the end of run_all_tasks,
\* followed by the closing prints
AllGenerateSummaryReport ==
    /\ mode = "all"
    /\ pc = "generate_summary_report"
    /\ generate_summary_report(results)
    /\ pc' = "done"
    /\ UNCHANGED <<mode, headless, task_index, i, results, manifest_path, e>>

\* the outcome records run_all_tasks builds, for any job and any result
Outcomes ==
    { [task |-> TASKS[k].description, app |-> TASKS[k].app,
       status |-> "success", manifest |-> StrPath(p)] :
        k \in 1..Len(TASKS), p \in ManifestPaths }
    \cup
    { [task |-> TASKS[k].description, app |-> TASKS[k].app,
       status |-> "failed", error |-> StrError(x)] :
        k \in 1..Len(TASKS), x \in TaskExecutionErrors }

\* lists of at most MaxOutcomes outcome records
OutcomeLists ==
    UNION { [1..n -> Outcomes] : n \in 0..MaxOutcomes }

\* generate_summary_report called on its own with a list of outcomes
InitReport ==
    /\ mode = "report"
    /\ headless = FALSE
    /\ task_index = 0
    /\ pc = "generate_summary_report"
    /\ i = 0
    /\ results \in OutcomeLists
    /\ manifest_path = NoValue
    /\ e = NoException
    /\ raised = << >>
    /\ dataset_summary = NoFile
    /\ log = << >>

\* the call generate_summary_report(results) made directly
DirectGenerateSummaryReport ==
    /\ mode = "report"
    /\ pc = "generate_summary_report"
    /\ generate_summary_report(results)
    /\ pc' = "done"
    /\ UNCHANGED <<mode, headless, task_index, i, results, manifest_path, e>>

NextReport == DirectGenerateSummaryReport

SpecReport == InitReport /\ [][NextReport]_vars

----------------------------------------------------------------------------
(* run_single_task *)

\* TASKS[task_index] with Python's list indexing: the 1-based position of
\* the selected element, 0 when the subscript raises IndexError
ListIndex(seq, k) ==
    IF k >= 0 /\ k < Len(seq) THEN k + 1
    ELSE IF k < 0 /\ k >= 0 - Len(seq) THEN Len(seq) + k + 1
    ELSE 0

\* if task_index >= len(TASKS): print(...); return
\* task = TASKS[task_index]; agent = AgentB()
SingleCheckIndex ==
    /\ mode = "single"
    /\ pc = "check_index"
    /\ IF task_index >= Len(TASKS)
       THEN /\ log' = Append(log, <<"invalid_task_index", task_index>>)
            /\ pc' = "done"
            /\ UNCHANGED <<i, raised>>
       ELSE IF ListIndex(TASKS, task_index) = 0
       THEN /\ raised' = <<IndexError>>
            /\ pc' = "done"
            /\ UNCHANGED <<i, log>>
       ELSE /\ i' = ListIndex(TASKS, task_index)
            /\ pc' = "initialize_browser"
            /\ UNCHANGED <<raised, log>>
    /\ UNCHANGED <<mode, headless, task_index, results, manifest_path, e,
                   dataset_summary>>

\* variant: initialize_browser called before the try block, so that its
\* exception skips the finally
SingleInitializeBrowser_BeforeTry ==
    /\ mode = "single"
    /\ pc = "initialize_browser"
    /\ \E ok \in BOOLEAN :
         IF ok
         THEN /\ log' = Append(log, <<"initialize_browser", 0>>)
              /\ pc' = "execute_task"
              /\ raised' = raised
         ELSE /\ log' = log \o << <<"initialize_browser", 0>>,
                                  <<"initialize_browser!raise", 0>> >>
              /\ pc' = "done"
              /\ raised' = <<SessionInitError>>
    /\ UNCHANGED <<mode, headless, task_index, i, results, manifest_path, e,
                   dataset_summary>>

\* variant: a failed initialize_browser is swallowed and the task is run
SingleInitializeBrowser_Swallowed ==
    /\ mode = "single"
    /\ pc = "initialize_browser"
    /\ \E ok \in BOOLEAN :
         IF ok
         THEN log' = Append(log, <<"initialize_browser", 0>>)
         ELSE log' = log \o << <<"initialize_browser", 0>>,
                               <<"initialize_browser!raise", 0>> >>
    /\ pc' = "execute_task"
    /\ UNCHANGED <<mode, headless, task_index, i, results, manifest_path, e,
                   raised, dataset_summary>>

\* await agent.initialize_browser(headless=headless), inside the try
SingleInitializeBrowser ==
    /\ mode = "single"
    /\ pc = "initialize_browser"
    /\ \E ok \in BOOLEAN :
         IF ok
         THEN /\ log' = Append(log, <<"initialize_browser", 0>>)
              /\ pc' = "execute_task"
              /\ raised' = raised
         ELSE /\ log' = log \o << <<"initialize_browser", 0>>,
                                  <<"initialize_browser!raise", 0>> >>
              /\ pc' = "finally"
              /\ raised' = <<SessionInitError>>
    /\ UNCHANGED <<mode, headless, task_index, i, results, manifest_path, e,
                   dataset_summary>>

\* the call agent.execute_task(...) is made and the coroutine awaits it
SingleExecuteTaskCall ==
    /\ mode = "single"
    /\ pc = "execute_task"
    /\ log' = Append(log, <<"execute_task", i>>)
    /\ pc' = "awaiting"
    /\ UNCHANGED <<mode, headless, task_index, i, results, manifest_path, e,
                   raised, dataset_summary>>

\* execute_task returns (the manifest is printed) or raises; no handler
\* encloses the call, so an exception leaves the try body
SingleExecuteTaskEnd ==
    /\ mode = "single"
    /\ pc = "awaiting"
    /\ \/ \E p \in ManifestPaths :
            /\ manifest_path' = p
            /\ log' = Append(log, <<"execute_task!return", i>>)
            /\ raised' = raised
       \/ \E x \in TaskExecutionErrors :
            /\ raised' = <<x>>
            /\ log' = Append(log, <<"execute_task!raise", i>>)
            /\ manifest_path' = manifest_path
    /\ pc' = "finally"
    /\ UNCHANGED <<mode, headless, task_index, i, results, e,
                   dataset_summary>>

\* variant: close_browser placed after the try block, not in a finally
SingleFinally_AfterTry ==
    /\ mode = "single"
    /\ pc = "finally"
    /\ IF raised # << >>
       THEN UNCHANGED <<raised, log>>
       ELSE \E ok \in BOOLEAN :
              IF ok
              THEN /\ log' = Append(log, <<"close_browser", 0>>)
                   /\ raised' = raised
              ELSE /\ log' = log \o << <<"close_browser", 0>>,
                                       <<"close_browser!raise", 0>> >>
                   /\ raised' = <<CloseError>>
    /\ pc' = "done"
    /\ UNCHANGED <<mode, headless, task_index, i, results, manifest_path, e,
                   dataset_summary>>

\* finally: await agent.close_browser()
SingleFinally ==
    /\ mode = "single"
    /\ pc = "finally"
    /\ \E ok \in BOOLEAN :
         IF ok
         THEN /\ log' = Append(log, <<"close_browser", 0>>)
              /\ raised' = raised
         ELSE /\ log' = log \o << <<"close_browser", 0>>,
                                  <<"close_browser!raise", 0>> >>
              /\ raised' = <<CloseError>> \o raised
    /\ pc' = "done"
    /\ UNCHANGED <<mode, headless, task_index, i, results, manifest_path, e,
                   dataset_summary>>

----------------------------------------------------------------------------

run_all_tasks ==
    \/ AllInitializeBrowser
    \/ AllFor
    \/ AllExecuteTaskCall
    \/ AllExecuteTaskEnd
    \/ AllAppendSuccess
    \/ AllSleep
    \/ AllExcept
    \/ AllFinally
    \/ AllGenerateSummaryReport

run_single_task ==
    \/ SingleCheckIndex
    \/ SingleInitializeBrowser
    \/ SingleExecuteTaskCall
    \/ SingleExecuteTaskEnd
    \/ SingleFinally

Next == run_all_tasks \/ run_single_task

Spec == Init /\ [][Next]_vars

----------------------------------------------------------------------------
(* What the caller of run_all_tasks holds once the coroutine has ended *)

\* run_all_tasks has no return statement: awaiting it yields None
ReturnValue == NoValue

\* the value returned and the exception raised; results is a local of the
\* coroutine and is not part of either
CallerView == [returned |-> ReturnValue, raised |-> raised]

----------------------------------------------------------------------------
(* Observations on the log *)

\* number of log entries of operation op
Count(op) == Cardinality({ n \in 1..Len(log) : log[n][1] = op })

\* some log entry is <<op, k>>
Logged(op, k) == \E n \in 1..Len(log) : log[n] = <<op, k>>

\* the exceptions of the chain in raised
Chain == { raised[n] : n \in 1..Len(raised) }

\* run_all_tasks has left its for loop (or never entered it)
LoopLeft == pc \in {"finally", "generate_summary_report", "done"}

\* initialize_browser raised
InitRaised == Count("initialize_browser!raise") > 0

----------------------------------------------------------------------------
(* C1 .. C5: run_all_tasks *)

\* C1: failure isolation. Once initialize_browser has succeeded and the
\* for loop is left, every job of the catalog has been attempted and an
\* outcome was recorded for it after its attempt, whatever jobs failed; and
\* at any time a recorded failure of job k with the runner beyond job k+1's
\* call means job k+1 was attempted.
C1_FailureIsolation ==
    mode = "all" =>
      /\ (LoopLeft /\ ~InitRaised) =>
           \A k \in 1..Len(TASKS) :
             \E m, n \in 1..Len(log) :
               /\ m < n
               /\ log[m] = <<"execute_task", k>>
               /\ log[n] = <<"append", k>>
      /\ \A k \in 1..(Len(TASKS) - 1) :
           (Logged("execute_task!raise", k) /\ pc = "done")
             => (Logged("execute_task", k + 1) /\ Logged("append", k + 1))

\* C1 witness: the run is over, some job failed and the next one succeeded
C1_Witness ==
    /\ mode = "all"
    /\ pc = "done"
    /\ \E k \in 1..(Len(TASKS) - 1) :
         /\ Logged("execute_task!raise", k)
         /\ Logged("execute_task!return", k + 1)
         /\ Len(results) > k
         /\ results[k].status = "failed"
         /\ results[k + 1].status = "success"

\* C2: when the loop of run_all_tasks has finished, results has as many
\* entries as TASKS and the n-th entry carries the description and the
\* application of the n-th job.
C2_OutcomesMatchCatalog ==
    (mode = "all" /\ LoopLeft /\ ~InitRaised) =>
      /\ Len(results) = Len(TASKS)
      /\ \A n \in 1..Len(TASKS) :
           /\ results[n].task = TASKS[n].description
           /\ results[n].app = TASKS[n].app

\* C2 witness: the loop is over with successes and failures mixed
C2_Witness ==
    /\ mode = "all"
    /\ LoopLeft
    /\ Len(results) = Len(TASKS)
    /\ \E m, n \in 1..Len(results) :
         /\ m < n
         /\ results[m].status = "success"
         /\ results[n].status = "failed"
    /\ \E m, n \in 1..Len(results) :
         /\ m < n
         /\ results[m].status = "failed"
         /\ results[n].status = "success"

\* C3: in a run of run_all_tasks initialize_browser and close_browser are
\* called at most once each, exactly once each when the coroutine has
\* ended (on every exit path), and no execute_task call follows the
\* close_browser call.
C3_InitAndCloseOnce ==
    mode = "all" =>
      /\ Count("initialize_browser") <= 1
      /\ Count("close_browser") <= 1
      /\ pc = "done" =>
           /\ Count("initialize_browser") = 1
           /\ Count("close_browser") = 1
      /\ \A m, n \in 1..Len(log) :
           (log[m][1] = "close_browser" /\ log[n][1] = "execute_task")
             => n < m

\* C3 witness: a finished run in which at least two jobs failed and the
\* browser was closed after the last execute_task
C3_Witness ==
    /\ mode = "all"
    /\ pc = "done"
    /\ Count("execute_task!raise") >= 2
    /\ Count("execute_task") = Len(TASKS)
    /\ Count("close_browser") = 1

\* C4: every recorded outcome has status success or failed, a success has a
\* manifest and no error, a failure has an error and no manifest.
C4_ManifestXorError ==
    \A n \in 1..Len(results) :
      LET r == results[n] IN
        /\ r.status \in {"success", "failed"}
        /\ r.status = "success" =>
             ("manifest" \in DOMAIN r /\ "error" \notin DOMAIN r)
        /\ r.status = "failed" =>
             ("error" \in DOMAIN r /\ "manifest" \notin DOMAIN r)

\* C4 witness: a failure recorded after a success
C4_Witness ==
    \E m, n \in 1..Len(results) :
      /\ m < n
      /\ results[m].status = "success"
      /\ results[n].status = "failed"

\* C5: if initialize_browser raises in run_all_tasks, execute_task is never
\* called, nothing is recorded, no report is generated or written, and the
\* coroutine ends by raising an exception whose chain holds the
\* initialization error.
C5_InitFailureIsFatal ==
    (mode = "all" /\ InitRaised) =>
      /\ Count("execute_task") = 0
      /\ results = << >>
      /\ Count("generate_summary_report") = 0
      /\ dataset_summary = NoFile
      /\ pc \in {"finally", "done"}
      /\ pc = "done" => (raised # << >> /\ SessionInitError \in Chain)

\* C5 witness: run_all_tasks has ended after initialize_browser raised
C5_Witness ==
    /\ mode = "all"
    /\ InitRaised
    /\ pc = "done"

----------------------------------------------------------------------------
(* C6 .. C10: run_single_task, the pause and the errors that propagate *)

\* C6: run_single_task called with an index outside the catalog bounds
\* (len(TASKS), anything larger, anything negative) reports an invalid
\* selection (by its message, or by the IndexError of the subscript) and
\* calls neither initialize_browser nor execute_task.
C6_OutOfBoundsRejected ==
    (mode = "single" /\ (task_index >= Len(TASKS) \/ task_index < 0)) =>
      /\ Count("initialize_browser") = 0
      /\ Count("execute_task") = 0
      /\ pc = "done" =>
           (Logged("invalid_task_index", task_index) \/ IndexError \in Chain)

\* C7: in run_all_tasks every execute_task call for a job other than the
\* first is directly preceded by the pause, itself directly preceded by the
\* recording of the previous job's outcome (execute, record, pause, next),
\* whether the previous job succeeded or failed.
C7_PauseBetweenJobs ==
    mode = "all" =>
      \A n \in 1..Len(log) :
        (log[n][1] = "execute_task" /\ log[n][2] > 1) =>
          /\ n > 2
          /\ log[n - 1] = <<"sleep", sleep_seconds>>
          /\ log[n - 2] = <<"append", log[n][2] - 1>>

\* C8: run_all_tasks ends by raising only when initialize_browser raised or
\* writing the report raised; an exception of close_browser is not raised
\* and the report is still generated after it.
C8_OnlyInitAndReportErrorsPropagate ==
    (mode = "all" /\ pc = "done") =>
      /\ raised # << >> =>
           (InitRaised \/ Count("generate_summary_report!raise") > 0)
      /\ CloseError \notin Chain
      /\ (Count("close_browser!raise") > 0 /\ ~InitRaised) =>
           Count("generate_summary_report") = 1

\* C9: when execute_task raises in run_single_task for the job of a valid
\* index (close_browser then returning), the exception does not leave the
\* coroutine; it is recorded as one failed outcome.
C9_SingleFailureAbsorbed ==
    (/\ mode = "single"
     /\ task_index >= 0
     /\ task_index < Len(TASKS)
     /\ pc = "done"
     /\ Count("execute_task!raise") > 0
     /\ Count("close_browser!raise") = 0) =>
      /\ \A x \in TaskExecutionErrors : x \notin Chain
      /\ Len(results) = 1
      /\ results[1].status = "failed"

\* C10: for a valid index run_single_task calls initialize_browser,
\* execute_task and close_browser at most once each, and when it has ended
\* initialize_browser and close_browser were called exactly once each, also
\* when execute_task raised.
C10_SingleInitAndCloseOnce ==
    (mode = "single" /\ task_index >= 0 /\ task_index < Len(TASKS)) =>
      /\ Count("initialize_browser") <= 1
      /\ Count("execute_task") <= 1
      /\ Count("close_browser") <= 1
      /\ pc = "done" =>
           /\ Count("initialize_browser") = 1
           /\ Count("close_browser") = 1

\* C10 witness: run_single_task has ended for a valid index after
\* execute_task raised, the browser having been closed
C10_Witness ==
    /\ mode = "single"
    /\ task_index >= 0
    /\ task_index < Len(TASKS)
    /\ pc = "done"
    /\ Logged("execute_task!raise", task_index + 1)
    /\ Count("close_browser") = 1

----------------------------------------------------------------------------
(* C11 .. C20 *)

\* C11: the report written by run_all_tasks has total_tasks equal to the
\* number of outcomes, successful_tasks + failed_tasks equal to total_tasks,
\* and its tasks field is the outcome list in execution order.
C11_ReportCountsAddUp ==
    (mode = "all" /\ dataset_summary # NoFile
                  /\ dataset_summary.kind = "json") =>
      LET report == dataset_summary.content IN
        /\ report.total_tasks = Len(results)
        /\ report.successful_tasks + report.failed_tasks = report.total_tasks
        /\ report.tasks = results
        /\ \A n \in 1..Len(TASKS) :
             report.tasks[n].task = TASKS[n].description

\* C11 witness: a report written for a run with successes and failures
C11_Witness ==
    /\ mode = "all"
    /\ dataset_summary # NoFile
    /\ dataset_summary.kind = "json"
    /\ dataset_summary.content.successful_tasks >= 2
    /\ dataset_summary.content.failed_tasks >= 2

\* C12: if writing the report raises after a batch, run_all_tasks ends by
\* raising that error and its caller holds the accumulated outcomes (the
\* list of results is what the coroutine hands back).
C12_OutcomesSurviveWriteFailure ==
    (/\ mode = "all"
     /\ pc = "done"
     /\ Count("generate_summary_report!raise") > 0) =>
      /\ CallerView.raised # << >>
      /\ Head(CallerView.raised) = ReportPersistError
      /\ CallerView.returned = [kind |-> "list", items |-> results]

\* C13: in run_all_tasks at most one execute_task call is in progress at
\* any time, and execute_task for job n+1 is called only after the outcome
\* of job n has been appended to results.
C13_StrictSequencing ==
    mode = "all" =>
      /\ (Count("execute_task") - Count("execute_task!return")
            - Count("execute_task!raise")) \in {0, 1}
      /\ \A n \in 1..Len(log) :
           (log[n][1] = "execute_task" /\ log[n][2] > 1) =>
             \E m \in 1..(n - 1) : log[m] = <<"append", log[n][2] - 1>>
      /\ pc = "awaiting" => Len(results) = i - 1

\* C13 witness: execute_task of a later job is in progress, the job before
\* it having failed and been recorded
C13_Witness ==
    /\ mode = "all"
    /\ pc = "awaiting"
    /\ i >= 2
    /\ Len(results) = i - 1
    /\ results[i - 1].status = "failed"

C15_NoRetry ==
    mode = "all" =>
      /\ \A k \in 1..Len(TASKS) :
           Cardinality({ n \in 1..Len(log) : log[n] = <<"execute_task", k>> })
             <= 1
      /\ \A m, n \in 1..Len(log) :
           (m < n /\ log[m][1] = "execute_task" /\ log[n][1] = "execute_task")
             => log[m][2] < log[n][2]

\* C15 witness: the run is over, every job was attempted and some failed
C15_Witness ==
    /\ mode = "all"
    /\ pc = "done"
    /\ Count("execute_task") = Len(TASKS)
    /\ Count("execute_task!raise") >= 3

\* C16: in a run of run_all_tasks the report is generated at most once,
\* and it is generated or written only when every job of the catalog has a
\* recorded outcome.
C16_ReportOnceAfterAllJobs ==
    mode = "all" =>
      /\ Count("generate_summary_report") <= 1
      /\ (\/ pc = "generate_summary_report"
          \/ Count("generate_summary_report") > 0
          \/ dataset_summary # NoFile) =>
           /\ Len(results) = Len(TASKS)
           /\ \A k \in 1..Len(TASKS) :
                Logged("execute_task", k) /\ Logged("append", k)

\* C16 witness: the report has been written at the end of a run
C16_Witness ==
    /\ mode = "all"
    /\ pc = "done"
    /\ Count("generate_summary_report") = 1
    /\ dataset_summary # NoFile
    /\ dataset_summary.kind = "json"
    /\ Len(dataset_summary.content.tasks) = Len(TASKS)

\* C17: for every outcome list, apps_covered of the written report holds
\* every application that has an outcome, holds no application without an
\* outcome, and holds none twice.
C17_AppsCoveredDistinct ==
    (dataset_summary # NoFile /\ dataset_summary.kind = "json") =>
      LET apps == dataset_summary.content.apps_covered IN
        /\ \A n \in 1..Len(results) :
             \E k \in 1..Len(apps) : apps[k] = results[n].app
        /\ \A k \in 1..Len(apps) :
             \E n \in 1..Len(results) : results[n].app = apps[k]
        /\ \A j, k \in 1..Len(apps) : j # k => apps[j] # apps[k]

\* C17 witness: a report written for two outcomes of the same application
C17_Witness ==
    /\ mode = "report"
    /\ Len(results) = 2
    /\ results[1].app = results[2].app
    /\ dataset_summary # NoFile
    /\ dataset_summary.kind = "json"
    /\ Len(dataset_summary.content.apps_covered) = 1

\* C18: when run_all_tasks has ended after initialize_browser succeeded
\* (every execute_task call having returned or raised), every job of the
\* catalog has an outcome, close_browser has been called and the report has
\* been generated (its write at least attempted).
C18_RunsToCompletion ==
    (mode = "all" /\ pc = "done" /\ ~InitRaised) =>
      /\ Len(results) = Len(TASKS)
      /\ Count("close_browser") = 1
      /\ Count("generate_summary_report") = 1

\* C19 as stated: in both coroutines close_browser is called only when
\* initialize_browser completed; when initialize_browser raises,
\* close_browser is not called.
C19_NoCloseAfterFailedInit ==
    /\ \A n \in 1..Len(log) :
         log[n][1] = "close_browser" =>
           \E m \in 1..(n - 1) : log[m][1] = "initialize_browser"
    /\ InitRaised => Count("close_browser") = 0

\* C19 as amended: in both coroutines close_browser is called at most once
\* and only after initialize_browser was called in the same invocation,
\* whether that call returned or raised; when initialize_browser raises,
\* close_browser is still called once before the coroutine ends.
C19_CloseFollowsInitCall ==
    /\ Count("close_browser") <= 1
    /\ \A n \in 1..Len(log) :
         log[n][1] = "close_browser" =>
           \E m \in 1..(n - 1) : log[m][1] = "initialize_browser"
    /\ (InitRaised /\ pc = "done") => Count("close_browser") = 1

\* C19 witness: run_single_task has ended after initialize_browser raised,
\* close_browser having been called
C19_Witness ==
    /\ mode = "single"
    /\ pc = "done"
    /\ InitRaised
    /\ Count("close_browser") = 1
    /\ Count("execute_task") = 0

\* C20: in both coroutines every execute_task call comes after an
\* initialize_browser call that returned and before any close_browser call.
C20_ExecuteOnlyWhileOpen ==
    \A n \in 1..Len(log) :
      log[n][1] = "execute_task" =>
        /\ \E m \in 1..(n - 1) : log[m][1] = "initialize_browser"
        /\ \A m \in 1..(n - 1) :
             log[m][1] \notin {"initialize_browser!raise", "close_browser"}
        /\ \A m \in (n + 1)..Len(log) :
             log[m][1] # "initialize_browser"

\* C20 witness: run_single_task has ended, its one execute_task call made
\* between initialize_browser and close_browser
C20_Witness ==
    /\ mode = "single"
    /\ pc = "done"
    /\ Len(log) = 4
    /\ log[1][1] = "initialize_browser"
    /\ log[2][1] = "execute_task"
    /\ log[4][1] = "close_browser"

====
